---- MODULE Spec2Model ----
(***************************************************************************)
(* A model of the crystara-hyperdriver edge function (src/src/index.ts):   *)
(* the fetch wrapper (preflight, API-key check, connection, catch/finally),*)
(* the router handleRoute, and the query handlers, run against a store of  *)
(* OFFChain_Account and OFFChain_LootboxStats rows.                        *)
(*                                                                         *)
(* Strings are sequences of one-character strings, so that trim,           *)
(* toLowerCase, parseInt and the username pattern are computed.  A query   *)
(* parameter that is absent (searchParams.get returns null) is Null.       *)
(***************************************************************************)
EXTENDS Integers, Sequences, FiniteSets, TLC

(* ----------------------------- strings -------------------------------- *)

Null == <<"NULL">>

Truthy(x) == x # Null /\ x # <<>>

IsSpace(c) == c = " "

RECURSIVE TrimStart(_)
TrimStart(x) ==
  IF x # <<>> /\ IsSpace(Head(x)) THEN TrimStart(Tail(x)) ELSE x

RECURSIVE TrimEnd(_)
TrimEnd(x) ==
  IF x # <<>> /\ IsSpace(x[Len(x)]) THEN TrimEnd(SubSeq(x, 1, Len(x) - 1)) ELSE x

Trim(x) == TrimEnd(TrimStart(x))

LowerOf(c) ==
  CASE c = "A" -> "a"
    [] c = "B" -> "b"
    [] c = "C" -> "c"
    [] c = "X" -> "x"
    [] OTHER -> c

ToLowerCase(x) == [i \in 1..Len(x) |-> LowerOf(x[i])]

\* url.searchParams.get(name)?.trim()
OptTrim(x) == IF x = Null THEN Null ELSE Trim(x)

\* url.searchParams.get(name)?.trim().toLowerCase()
OptTrimLower(x) == IF x = Null THEN Null ELSE ToLowerCase(Trim(x))

Digits == {"0", "1", "2", "3", "4", "5", "6", "7", "8", "9"}

DigitVal(c) ==
  CASE c = "0" -> 0 [] c = "1" -> 1 [] c = "2" -> 2 [] c = "3" -> 3
    [] c = "4" -> 4 [] c = "5" -> 5 [] c = "6" -> 6 [] c = "7" -> 7
    [] c = "8" -> 8 [] c = "9" -> 9

RECURSIVE LeadingDigits(_)
LeadingDigits(x) ==
  IF x # <<>> /\ Head(x) \in Digits THEN <<Head(x)>> \o LeadingDigits(Tail(x)) ELSE <<>>

RECURSIVE DigitsValue(_)
DigitsValue(d) ==
  IF d = <<>> THEN 0 ELSE 10 * DigitsValue(SubSeq(d, 1, Len(d) - 1)) + DigitVal(d[Len(d)])

\* parseInt(text): leading white space is skipped, then the longest prefix of
\* digits is read; no digit at all gives NaN.
ParseInt(x) ==
  LET d == LeadingDigits(TrimStart(x))
  IN IF d = <<>> THEN [nan |-> TRUE, val |-> 0] ELSE [nan |-> FALSE, val |-> DigitsValue(d)]

UsernameChars ==
  {"a", "b", "c", "d", "e", "f", "g", "h", "i", "j", "k", "l", "m", "n", "o", "p", "q",
   "r", "s", "t", "u", "v", "w", "x", "y", "z",
   "A", "B", "C", "D", "E", "F", "G", "H", "I", "J", "K", "L", "M", "N", "O", "P", "Q",
   "R", "S", "T", "U", "V", "W", "X", "Y", "Z"} \cup Digits \cup {"_", "-"}

\* The test without the character class.
UsernamePattern_AnyChar(x) == x # <<>>

\* /^[a-zA-Z0-9_-]+$/.test(username)
UsernamePattern(x) == x # <<>> /\ \A i \in 1..Len(x) : x[i] \in UsernameChars

UsernameMin == 3
UsernameMax == 30

TrueStr == <<"t", "r", "u", "e">>

\* A flag that any non-empty value sets.
Flag_Truthy(x) == Truthy(x)

\* url.searchParams.get(flag) === 'true'
Flag(x) == x = TrueStr


(* ------------------------- requests and routes ------------------------ *)

ParamNames ==
  {"address", "lootboxId", "creator", "collection", "url", "walletAddress", "email",
   "username", "preferences", "greaterThanZeroBalance", "includeLootboxes",
   "includeTokens", "includeLootbox", "mustHaveUrl", "isActive", "isWhitelisted",
   "includeTokenCollection"}

\* The query string: every parameter not given is absent.
Q(given) == [n \in ParamNames |-> IF n \in DOMAIN given THEN given[n] ELSE Null]

P(name) == <<"api", name>>
PP(name) == <<"api", "private", name>>

UpsertPath == <<"api", "private", "account", "upsert">>
CreatePath == <<"api", "private", "lootbox-stats", "create">>

\* path.startsWith('/api/private/')
IsPrivatePath(path) == Len(path) >= 3 /\ path[1] = "api" /\ path[2] = "private"

\* env.VALID_API_KEYS, parsed
ValidKeys == {<<"k", "1">>}

\* validateApiKey without the membership test: any key that is present passes.
validateApiKey_AnyKey(r) == r.key # Null

\* validateApiKey
validateApiKey(r) == r.key # Null /\ r.key \in ValidKeys

\* Routes that take no parameter: path and handler.
NoParamRoutes ==
  { <<P("accounts"), "getAccounts">>,
    <<P("lootboxes"), "getLootboxes">>,
    <<P("lootbox-analytics"), "getLootboxAnalytics">>,
    <<P("lootbox-purchases"), "getLootboxPurchases">>,
    <<P("lootbox-rewards"), "getLootboxRewards">>,
    <<P("tokens"), "getTokens">>,
    <<P("token-collections"), "getTokenCollections">>,
    <<P("token-transactions"), "getTokenTransactions">>,
    <<P("token-data"), "getTokenData">>,
    <<P("token-deposits"), "getTokenDeposits">>,
    <<P("token-withdraws"), "getTokenWithdraws">>,
    <<P("token-burns"), "getTokenBurns">>,
    <<P("token-mints"), "getTokenMints">>,
    <<P("token-claims"), "getTokenClaims">>,
    <<P("rarities"), "getRarities">>,
    <<P("event-tracking"), "getEventTracking">>,
    <<P("vrf-callbacks"), "getVRFCallbacks">>,
    <<PP("accounts"), "getOffChainAccounts">> }

\* Routes with one required parameter: path, parameter, 400 message, handler.
OneParamRoutes ==
  { <<P("account-balances"), "address", "Address required", "getAccountBalances">>,
    <<P("tokens-by-lootbox"), "lootboxId", "Lootbox ID required", "getTokensByLootboxId">>,
    <<P("rarities-by-lootbox"), "lootboxId", "Lootbox ID required", "getRaritiesByLootboxId">>,
    <<PP("account"), "address", "Wallet address required", "getOffChainAccount">>,
    <<PP("lootbox-stats"), "lootboxId", "Lootbox ID required", "getLootboxStats">>,
    <<PP("lootbox-likes"), "lootboxId", "Lootbox ID required", "getLootboxLikes">>,
    <<PP("lootbox-views"), "lootboxId", "Lootbox ID required", "getLootboxViews">>,
    <<PP("creator-lootbox-stats"), "creator", "Creator address required", "getCreatorLootboxStats">>,
    <<PP("lootbox-stats-by-url"), "url", "URL required", "getLootboxStatsByUrl">>,
    <<PP("lootbox-stats-url-exists"), "url", "URL required", "checkLootboxStatsUrlExists">> }

\* Routes that require creator and collection: path and handler.
CreatorCollectionRoutes ==
  { <<P("lootbox"), "getLootboxByCreatorAndCollection">>,
    <<P("tokens-by-collection"), "getTokensByCreatorAndCollection">>,
    <<P("tokens-by-lootbox-creator"), "getTokensByLootboxCreator">>,
    <<P("token-collection-by-lootbox-creator"), "getTokenCollectionByLootbox">>,
    <<P("rarities-by-collection"), "getRaritiesByCreatorAndCollection">>,
    <<PP("lootbox-stats-by-collection"), "getLootboxStatsByCollection">> }

\* Routes whose parameters are all optional: path and handler.
OptionalParamRoutes ==
  { <<P("token-balances"), "getTokenBalances">>,
    <<PP("all-lootbox-stats"), "getAllLootboxStats">> }

RoutePaths ==
  {t[1] : t \in NoParamRoutes \cup OneParamRoutes \cup CreatorCollectionRoutes
                 \cup OptionalParamRoutes} \cup {UpsertPath, CreatePath}

(* JSON texts of the preferences parameter, and what JSON.parse makes of them *)
JsonObject == <<"{", "}">>
JsonArray == <<"[", "1", "]">>
JsonNumber == <<"5">>
JsonNull == <<"n", "u", "l", "l">>
JsonBroken == <<"{">>

\* JSON.parse(text): the kind of value, or "error" for a SyntaxError
JsonParse(text) ==
  CASE text = JsonObject -> "object"
    [] text = JsonArray -> "array"
    [] text = JsonNumber -> "number"
    [] text = JsonNull -> "null"
    [] OTHER -> "error"

\* typeof parsedPreferences !== 'object' || parsedPreferences === null
PreferencesRejected(text) == JsonParse(text) \notin {"object", "array"}

(* The JSON body of a create request.  kind "none": request.json() throws;   *)
(* kind "null": the body is the JSON value null; kind "object": has lists    *)
(* the members that are present.                                            *)
Body(kind, has, lootboxId, url, rarityColors, creatorAddress, collectionName) ==
  [kind |-> kind, has |-> has, lootboxId |-> lootboxId, url |-> url,
   rarityColors |-> rarityColors, creatorAddress |-> creatorAddress,
   collectionName |-> collectionName]

NoBody == Body("none", {}, 0, <<>>, "", <<>>, <<>>)
NullBody == Body("null", {}, 0, <<>>, "", <<>>, <<>>)

MissingRequiredFields(b) ==
  \/ "lootboxId" \notin b.has \/ b.lootboxId = 0
  \/ "url" \notin b.has \/ b.url = <<>>
  \/ "creatorAddress" \notin b.has \/ b.creatorAddress = <<>>
  \/ "collectionName" \notin b.has \/ b.collectionName = <<>>

(* ------------------------------ handleRoute --------------------------- *)

Respond(status, error) ==
  [kind |-> "respond", status |-> status, error |-> error, handler |-> "none"]
Call(handler) ==
  [kind |-> "call", status |-> 0, error |-> "", handler |-> handler]
Throw(error) ==
  [kind |-> "throw", status |-> 0, error |-> error, handler |-> "none"]

\* case '/api/private/account/upsert', up to the call of upsertOffChainAccount
UpsertRoute(r) ==
  LET walletAddress == OptTrim(r.q["walletAddress"])
      email == OptTrimLower(r.q["email"])
      username == OptTrim(r.q["username"])
      preferences == r.q["preferences"]
  IN IF ~Truthy(walletAddress) THEN Respond(400, "Invalid wallet address format")
     ELSE IF Truthy(email) THEN Respond(400, "Invalid email format")
     ELSE IF Truthy(username) /\ (Len(username) < UsernameMin \/ Len(username) > UsernameMax)
       THEN Respond(400, "Username must be between 3 and 30 characters")
     ELSE IF Truthy(username) /\ ~UsernamePattern(username)
       THEN Respond(400, "Username can only contain letters, numbers, underscores, and hyphens")
     ELSE IF Truthy(preferences) /\ PreferencesRejected(preferences)
       THEN Respond(400, "Invalid preferences format")
     ELSE Call("upsertOffChainAccount")

\* case '/api/private/lootbox-stats/create', up to the call of createOffchainLootboxStats
CreateRoute(r) ==
  IF r.body.kind = "none" THEN Throw("Unexpected end of JSON input")
  ELSE IF r.body.kind = "null" THEN Throw("Cannot destructure property of null")
  ELSE IF MissingRequiredFields(r.body) THEN Respond(400, "Missing required fields")
  ELSE Call("createOffchainLootboxStats")

\* handleRoute: what the switch does before any handler runs
handleRoute(r) ==
  IF \E t \in NoParamRoutes : t[1] = r.path
    THEN Call((CHOOSE t \in NoParamRoutes : t[1] = r.path)[2])
  ELSE IF \E t \in OneParamRoutes : t[1] = r.path
    THEN LET t == CHOOSE u \in OneParamRoutes : u[1] = r.path
         IN IF ~Truthy(r.q[t[2]]) THEN Respond(400, t[3]) ELSE Call(t[4])
  ELSE IF \E t \in CreatorCollectionRoutes : t[1] = r.path
    THEN LET t == CHOOSE u \in CreatorCollectionRoutes : u[1] = r.path
         IN IF ~Truthy(r.q["creator"]) \/ ~Truthy(r.q["collection"])
              THEN Respond(400, "Creator address and collection name required")
              ELSE Call(t[2])
  ELSE IF \E t \in OptionalParamRoutes : t[1] = r.path
    THEN Call((CHOOSE t \in OptionalParamRoutes : t[1] = r.path)[2])
  ELSE IF r.path = UpsertPath THEN UpsertRoute(r)
  ELSE IF r.path = CreatePath THEN CreateRoute(r)
  ELSE Respond(404, "Not found")


(* ------------------------------- the store ---------------------------- *)

Alice == <<"0", "x", "a">>
Bob == <<"0", "x", "b">>
Genesis == <<"g", "e", "n">>
Gold == <<"g", "o", "l", "d">>

Res1 == <<"r", "1">>
Res2 == <<"r", "2">>

\* The Lootbox table, written only by the chain indexer: tokenCollectionId 0
\* is SQL NULL.
Lootbox ==
  { [id |-> 1, creatorAddress |-> Alice, collectionName |-> Genesis, tokenCollectionId |-> 1,
     isActive |-> TRUE, isWhitelisted |-> TRUE, collectionResourceAddress |-> Res1],
    [id |-> 2, creatorAddress |-> Bob, collectionName |-> Genesis, tokenCollectionId |-> 0,
     isActive |-> TRUE, isWhitelisted |-> FALSE, collectionResourceAddress |-> Res2],
    [id |-> 3, creatorAddress |-> Alice, collectionName |-> Gold, tokenCollectionId |-> 1,
     isActive |-> FALSE, isWhitelisted |-> TRUE, collectionResourceAddress |-> Res1] }

\* The TokenCollection table.
TokenCollection == {[id |-> 1, creator |-> Res1]}

MaxRows == 52

\* A table read by a list endpoint, with n rows: `at` is the value of the
\* column the endpoint sorts by (values repeat and are not in table order).
ListTable(n) == [i \in 1..n |-> [id |-> i, at |-> (i * 7) % 11]]

\* The TokenBalance table with n rows, each joined to its Account row: `at` is
\* lastUpdated.
BalanceTable(n) ==
  [i \in 1..n |-> [id |-> i, accountAddress |-> IF i % 3 = 0 THEN Bob ELSE Alice,
                   balance |-> i % 2, at |-> (i * 5) % 7]]

\* The chain tables with n rows each.
Chain(n) == [list |-> ListTable(n), balances |-> BalanceTable(n)]

\* Errors the database raises: the message and the words the handlers look for
\* in it.
DbError(message, words) == [message |-> message, words |-> words]

ConnectionError == DbError("connection terminated unexpectedly", {})
EmailUniqueError ==
  DbError("duplicate key value violates unique constraint OFFChain_Account_email_key",
          {"unique constraint", "email"})
UsernameUniqueError ==
  DbError("duplicate key value violates unique constraint OFFChain_Account_username_key",
          {"unique constraint", "username"})
EmailCheckError ==
  DbError("value too long for column email", {"email"})
StatsUniqueError ==
  DbError("duplicate key value violates unique constraint OFFChain_LootboxStats_key",
          {"unique constraint"})

KeyUniqueError ==
  DbError("duplicate key value violates unique constraint OFFChain_Account_pkey",
          {"unique constraint"})

InvalidIntegerError == DbError("invalid input syntax for type integer: NaN", {})

ReadErrors == {ConnectionError}
UpsertErrors ==
  {ConnectionError, EmailUniqueError, UsernameUniqueError, KeyUniqueError, EmailCheckError}

VARIABLES
  accounts,     \* OFFChain_Account rows, in insertion order (id, createdAt)
  stats,        \* OFFChain_LootboxStats rows, in insertion order
  uniqueIndex,  \* whether the schema has unique indexes on lootboxId and url
  chain,        \* the tables the chain indexer writes, as the read handlers see them
  req,          \* per request slot: the request
  pc,           \* per request slot: where fetch is
  resp,         \* per request slot: the response returned
  conn,         \* per request slot: the sql client: "none", "open", "ended"
  ended,        \* per request slot: number of sql.end() calls
  handler,      \* per request slot: the handler handleRoute called
  sqlIssued,    \* per request slot: whether a SQL statement was issued
  loc,          \* per request slot: the handler's local variables
  err,          \* per request slot: the error thrown and the catch block that took it
  before,       \* per request slot: the OFFChain_LootboxStats rows when it arrived
  lastUpsert    \* the account-upsert call before the current request

vars ==
  <<accounts, stats, uniqueIndex, chain, req, pc, resp, conn, ended, handler, sqlIssued, loc,
    err, before, lastUpsert>>

Slots == DOMAIN pc

NoRequest ==
  [method |-> "GET", path |-> <<>>, key |-> Null, q |-> Q(<<>>), body |-> NoBody]

NoResponse == [status |-> 0, body |-> "none", error |-> "", code |-> "", cors |-> FALSE]

\* Response.json(payload, {status}) as a handler builds it
Json(status, error, code) ==
  [status |-> status, body |-> "json", error |-> error, code |-> code, cors |-> FALSE]

\* A response left without the headers.
WithCors_NotSet(response) == response

\* Object.entries(corsHeaders).forEach(... response.headers.set ...), or
\* headers: corsHeaders
WithCors(response) == [response EXCEPT !.cors = TRUE]

\* Locals of the handlers: uniqueUrl, newUrl and offchainLootbox (the id of the
\* row the INSERT returned, 0 before it) of createOffchainLootboxStats; the
\* tokenCollectionId of stats[0] in the composed fetches; the rows the first
\* statement of a read handler returned (rows), which the handler puts in the
\* response body; the statements the handler has issued, in order (log); the
\* row that the upsert found in conflict, as it was (conflict); and
\* the number of
\* OFFChain_LootboxStats rows there were when generateUniqueUrl made its last
\* check of baseUrl (baseAt) and of newUrl (candAt).
NoLocals ==
  [uniqueUrl |-> <<>>, newUrl |-> <<>>, offchainLootbox |-> 0, baseAt |-> 0, candAt |-> 0,
   tcid |-> 0, rows |-> <<>>, log |-> <<>>, conflict |-> <<>>]

NoError == [caughtBy |-> "none", message |-> ""]

\* console.error('Error:', error) of fetch
CaughtByFetch(message) == [caughtBy |-> "fetch", message |-> message]

\* console.error('Error in ...', error) of a handler
CaughtByHandler(message) == [caughtBy |-> "handler", message |-> message]

NoUpsert == [wallet |-> Null, email |-> Null, rows |-> 0]

Urls(rows) == {rows[i].url : i \in 1..Len(rows)}

\* SELECT EXISTS(SELECT 1 FROM "OFFChain_LootboxStats" WHERE url = ...)
UrlExists(url) == url \in Urls(stats)

(* ----------------------------- fetch ---------------------------------- *)

\* A request reaches the worker and takes the first free slot.
Arrive(s, r) ==
  /\ pc[s] = "idle"
  /\ \A t \in Slots : t < s => pc[t] # "idle"
  /\ req' = [req EXCEPT ![s] = r]
  /\ pc' = [pc EXCEPT ![s] = "fetch"]
  /\ before' = [before EXCEPT ![s] = stats]
  /\ UNCHANGED <<accounts, stats, uniqueIndex, chain, resp, conn, ended, handler, sqlIssued, loc,
                 err, lastUpsert>>

\* Whether the request of slot s was an account-upsert call with a wallet
\* address and an email.
UpsertCallWithEmail(s) ==
  /\ req[s].path = UpsertPath
  /\ Truthy(OptTrim(req[s].q["walletAddress"]))
  /\ Truthy(OptTrimLower(req[s].q["email"]))

\* The response has been returned: the invocation ends and its slot is free.
Release(s) ==
  /\ pc[s] = "done"
  /\ req' = [req EXCEPT ![s] = NoRequest]
  /\ pc' = [pc EXCEPT ![s] = "idle"]
  /\ resp' = [resp EXCEPT ![s] = NoResponse]
  /\ conn' = [conn EXCEPT ![s] = "none"]
  /\ ended' = [ended EXCEPT ![s] = 0]
  /\ handler' = [handler EXCEPT ![s] = "none"]
  /\ sqlIssued' = [sqlIssued EXCEPT ![s] = FALSE]
  /\ loc' = [loc EXCEPT ![s] = NoLocals]
  /\ err' = [err EXCEPT ![s] = NoError]
  /\ before' = [before EXCEPT ![s] = <<>>]
  /\ UNCHANGED <<accounts, stats, uniqueIndex, chain>>

Complete(s) == Release(s) /\ UNCHANGED lastUpsert

\* The same step, remembering the call when it was an account-upsert call that
\* reached the router: its wallet address, its email and the number of
\* OFFChain_Account rows it left.
CompleteLogged(s) ==
  /\ Release(s)
  /\ lastUpsert' =
       IF req[s].path = UpsertPath /\ conn[s] = "ended"
       THEN IF UpsertCallWithEmail(s)
            THEN [wallet |-> OptTrim(req[s].q["walletAddress"]),
                  email |-> OptTrimLower(req[s].q["email"]),
                  rows |-> Len(accounts)]
            ELSE NoUpsert
       ELSE lastUpsert

\* fetch with the API-key check ahead of the preflight.
fetch_KeyCheckFirst(s) ==
  /\ pc[s] = "fetch"
  /\ IF IsPrivatePath(req[s].path) /\ ~validateApiKey(req[s])
       THEN /\ resp' = [resp EXCEPT ![s] =
                 WithCors(Json(401, "Unauthorized - Invalid API key", ""))]
            /\ pc' = [pc EXCEPT ![s] = "done"]
            /\ conn' = conn
     ELSE IF req[s].method = "OPTIONS"
       THEN /\ resp' = [resp EXCEPT ![s] =
                 [status |-> 200, body |-> "none", error |-> "", code |-> "", cors |-> TRUE]]
            /\ pc' = [pc EXCEPT ![s] = "done"]
            /\ conn' = conn
     ELSE /\ conn' = [conn EXCEPT ![s] = "open"]
          /\ pc' = [pc EXCEPT ![s] = "route"]
          /\ resp' = resp
  /\ UNCHANGED <<accounts, stats, uniqueIndex, chain, req, ended, handler, sqlIssued, loc, err,
                 before, lastUpsert>>

\* fetch, lines 25-44: preflight, the API-key check, postgres(...)
fetch(s) ==
  /\ pc[s] = "fetch"
  /\ IF req[s].method = "OPTIONS"
       THEN /\ resp' = [resp EXCEPT ![s] =
                 [status |-> 200, body |-> "none", error |-> "", code |-> "", cors |-> TRUE]]
            /\ pc' = [pc EXCEPT ![s] = "done"]
            /\ conn' = conn
     ELSE IF IsPrivatePath(req[s].path) /\ ~validateApiKey(req[s])
       THEN /\ resp' = [resp EXCEPT ![s] =
                 WithCors(Json(401, "Unauthorized - Invalid API key", ""))]
            /\ pc' = [pc EXCEPT ![s] = "done"]
            /\ conn' = conn
     ELSE /\ conn' = [conn EXCEPT ![s] = "open"]
          /\ pc' = [pc EXCEPT ![s] = "route"]
          /\ resp' = resp
  /\ UNCHANGED <<accounts, stats, uniqueIndex, chain, req, ended, handler, sqlIssued, loc, err,
                 before, lastUpsert>>

\* The catch of fetch without headers: corsHeaders.
OuterCatch_NoCors(message) == Json(500, message, "")

\* catch (error) of fetch: the error's message in a 500 with the CORS headers
OuterCatch(message) == WithCors(Json(500, message, ""))

\* createOffchainLootboxStats starting at its existing-stats check.
FirstStatement_NoOwnership(h) ==
  CASE h = "upsertOffChainAccount" -> "upsert"
    [] h = "createOffchainLootboxStats" -> "existing"
    [] OTHER -> "q1"

\* The pc at which a handler issues its first statement.
FirstStatement(h) ==
  CASE h = "upsertOffChainAccount" -> "upsert"
    [] h = "createOffchainLootboxStats" -> "ownership"
    [] OTHER -> "q1"

\* fetch, line 47: handleRoute up to the handler's first statement
Route(s) ==
  /\ pc[s] = "route"
  /\ LET out == handleRoute(req[s])
     IN CASE out.kind = "respond" ->
               /\ resp' = [resp EXCEPT ![s] = WithCors(Json(out.status, out.error, ""))]
               /\ pc' = [pc EXCEPT ![s] = "finally"]
               /\ UNCHANGED <<handler, err>>
          [] out.kind = "throw" ->
               /\ resp' = [resp EXCEPT ![s] = OuterCatch(out.error)]
               /\ err' = [err EXCEPT ![s] = CaughtByFetch(out.error)]
               /\ pc' = [pc EXCEPT ![s] = "finally"]
               /\ handler' = handler
          [] out.kind = "call" ->
               /\ handler' = [handler EXCEPT ![s] = out.handler]
               /\ pc' = [pc EXCEPT ![s] = FirstStatement(out.handler)]
               /\ UNCHANGED <<resp, err>>
  /\ UNCHANGED <<accounts, stats, uniqueIndex, chain, req, conn, ended, sqlIssued, loc, before,
                 lastUpsert>>

\* fetch with sql.end() at the end of the try block instead of in finally: a
\* request that ended in the catch block keeps its connection.
Finally_OnlyOnSuccess(s) ==
  /\ pc[s] = "finally"
  /\ conn' = [conn EXCEPT ![s] = IF err[s].caughtBy = "fetch" THEN @ ELSE "ended"]
  /\ ended' = [ended EXCEPT ![s] = IF err[s].caughtBy = "fetch" THEN @ ELSE @ + 1]
  /\ pc' = [pc EXCEPT ![s] = "done"]
  /\ UNCHANGED <<accounts, stats, uniqueIndex, chain, req, resp, handler, sqlIssued, loc, err,
                 before, lastUpsert>>

\* finally { await sql.end() }
Finally(s) ==
  /\ pc[s] = "finally"
  /\ conn' = [conn EXCEPT ![s] = "ended"]
  /\ ended' = [ended EXCEPT ![s] = @ + 1]
  /\ pc' = [pc EXCEPT ![s] = "done"]
  /\ UNCHANGED <<accounts, stats, uniqueIndex, chain, req, resp, handler, sqlIssued, loc, err,
                 before, lastUpsert>>


(* --------------------------- read handlers ---------------------------- *)

\* getTokenBalances without its try/catch.
TryHandlers_NoTokenBalances ==
  {"getCreatorLootboxStats", "getLootboxStatsByUrl", "checkLootboxStatsUrlExists",
   "upsertOffChainAccount", "createOffchainLootboxStats", "getLootboxStatsByCollection",
   "getAllLootboxStats"}

\* Handlers whose statements run inside the handler's own try/catch.
TryHandlers ==
  {"getTokenBalances", "getCreatorLootboxStats", "getLootboxStatsByUrl",
   "checkLootboxStatsUrlExists", "upsertOffChainAccount", "createOffchainLootboxStats",
   "getLootboxStatsByCollection", "getAllLootboxStats"}

\* The response a read handler's catch block builds.
ReadCatch(h, e) ==
  CASE h = "getTokenBalances" -> Json(500, "Failed to fetch token balances", "")
    [] h \in {"getLootboxStatsByCollection", "getAllLootboxStats"} ->
         Json(500, "Failed to fetch lootbox stats", "")
    [] OTHER -> Json(500, e.message, "")

\* A database error in a statement of handler h: the handler's catch when it
\* has one, else the catch of fetch.
OnDbError(h, e) ==
  IF h \in TryHandlers THEN WithCors(ReadCatch(h, e)) ELSE OuterCatch(e.message)

\* The catch block that takes a database error in a statement of handler h.
CatchOf(h, e) ==
  IF h \in TryHandlers THEN CaughtByHandler(e.message) ELSE CaughtByFetch(e.message)

\* Handlers that handleRoute calls with parseInt(lootboxId).
LootboxIdHandlers ==
  {"getTokensByLootboxId", "getRaritiesByLootboxId", "getLootboxStats", "getLootboxLikes",
   "getLootboxViews"}

\* The errors a statement of a read handler can raise: the database may also
\* refuse the parameter when parseInt(lootboxId) is NaN.
QueryErrors(h, r) ==
  IF h \in LootboxIdHandlers /\ ParseInt(r.q["lootboxId"]).nan
  THEN ReadErrors \cup {InvalidIntegerError}
  ELSE ReadErrors

LootboxOf(id) == CHOOSE l \in Lootbox : l.id = id

\* Rows of OFFChain_LootboxStats s INNER JOIN Lootbox l ON l.id = s.lootboxId
\* that the primary query of a composed fetch selects.
PrimaryRows(h, r) ==
  {i \in 1..Len(stats) :
     /\ \E l \in Lootbox : l.id = stats[i].lootboxId
     /\ IF h = "getLootboxStatsByUrl"
          THEN stats[i].url = r.q["url"]
          ELSE /\ LootboxOf(stats[i].lootboxId).creatorAddress = r.q["creator"]
               /\ LootboxOf(stats[i].lootboxId).collectionName = r.q["collection"]}

\* The handlers that answer 404, with the plain lookup of a lootbox among them.
LookupHandlers_WithLootbox ==
  {"getLootboxStatsByUrl", "getLootboxStatsByCollection", "getLootboxByCreatorAndCollection"}

\* The handlers that answer 404 when their primary query returns no row.
LookupHandlers == {"getLootboxStatsByUrl", "getLootboxStatsByCollection"}

NotFound(h) ==
  IF h = "getLootboxStatsByUrl" THEN Json(404, "Stats not found for URL", "")
  ELSE Json(404, "Stats not found", "")

\* The composed fetches asking for the token collection whether or not the
\* stats row has a tokenCollectionId.
NextStatement_AnyCollection(h, at, r, tcid) ==
  IF at = "q1" /\ Flag(r.q[IF h = "getCreatorLootboxStats" THEN "includeLootboxes"
                            ELSE "includeLootbox"])
       /\ h \in LookupHandlers \cup {"getCreatorLootboxStats"}
    THEN "q2"
  ELSE IF at \in {"q1", "q2"} /\ Flag(r.q["includeTokens"])
            /\ h \in LookupHandlers \cup {"getCreatorLootboxStats"}
    THEN "q3"
  ELSE IF h = "getAllLootboxStats" /\ at = "q1"
            /\ (Flag(r.q["includeTokenCollection"]) \/ Flag(r.q["includeTokens"]))
    THEN "q2"
  ELSE "return"

\* The statement a read handler issues after the statement at `at` returned,
\* or "return".
NextStatement(h, at, r, tcid) ==
  LET tokens == Flag(r.q["includeTokens"])
  IN CASE h = "getCreatorLootboxStats" ->
            IF at = "q1" /\ Flag(r.q["includeLootboxes"]) THEN "q2"
            ELSE IF at \in {"q1", "q2"} /\ tokens THEN "q3"
            ELSE "return"
       [] h \in LookupHandlers ->
            IF at = "q1" /\ Flag(r.q["includeLootbox"]) THEN "q2"
            ELSE IF at \in {"q1", "q2"} /\ tokens /\ tcid # 0 THEN "q3"
            ELSE "return"
       [] h = "getAllLootboxStats" ->
            IF at = "q1" /\ (Flag(r.q["includeTokenCollection"]) \/ tokens) THEN "q2"
            ELSE "return"
       [] OTHER -> "return"

\* ORDER BY "at" DESC: rows with equal values keep their table order.  A row
\* comes after the rows with a greater value and the earlier rows with the
\* same value.
OrderByDesc(rows) ==
  LET n == Len(rows)
      place == [i \in 1..n |->
                  1 + Cardinality({j \in 1..n : \/ rows[j].at > rows[i].at
                                                \/ rows[j].at = rows[i].at /\ j < i})]
  IN [k \in 1..n |-> rows[CHOOSE i \in 1..n : place[i] = k]]

\* A statement without its LIMIT clause.
Limit_Missing(rows, n) == rows

\* LIMIT n
Limit(rows, n) == SubSeq(rows, 1, IF Len(rows) < n THEN Len(rows) ELSE n)

ShortLimit == 20
LongLimit == 50

\* The handlers of the list endpoints that take no parameter.
ListHandlers == {t[2] : t \in NoParamRoutes}

\* The LIMIT of a list handler.
ListLimit(h) ==
  IF h \in {"getTokenTransactions", "getEventTracking"} THEN LongLimit ELSE ShortLimit

\* Rows of an OFFChain table with their id and createdAt, which follow
\* insertion order.
Stamped(rows) == [i \in 1..Len(rows) |-> [id |-> i, at |-> i, row |-> rows[i]]]

\* The statement of getTokenBalances: the address and balance clauses, the
\* order, and the LIMIT that is there only without an address.
getTokenBalances(r) ==
  LET address == r.q["address"]
      Where(b) ==
        /\ Truthy(address) => b.accountAddress = address
        /\ Flag(r.q["greaterThanZeroBalance"]) => b.balance > 0
      ordered == OrderByDesc(SelectSeq(chain.balances, Where))
  IN IF ~Truthy(address) THEN Limit(ordered, ShortLimit) ELSE ordered

\* The first statement of getAllLootboxStats: the join with Lootbox, the
\* clauses of the flags that are set, the order.
getAllLootboxStats(r) ==
  LET Where(x) ==
        /\ \E l \in Lootbox : l.id = x.row.lootboxId
        /\ Flag(r.q["mustHaveUrl"]) => x.row.url # Null
        /\ Flag(r.q["isActive"]) => LootboxOf(x.row.lootboxId).isActive
        /\ Flag(r.q["isWhitelisted"]) => LootboxOf(x.row.lootboxId).isWhitelisted
  IN OrderByDesc(SelectSeq(Stamped(stats), Where))

\* LIMIT 1 without an order: any one of the rows, or none when there is none.
AnyOne(rows) == IF rows = {} THEN {<<>>} ELSE {<<x>> : x \in rows}

\* What the first statement of a read handler may return.  (The statements of
\* the handlers not listed return rows of tables that no property here reads;
\* their result is left empty.)
PrimaryResults(h, r) ==
  CASE h = "getOffChainAccounts" -> {Limit(OrderByDesc(Stamped(accounts)), ListLimit(h))}
    [] h \in ListHandlers \ {"getOffChainAccounts"} ->
         {Limit(OrderByDesc(chain.list), ListLimit(h))}
    [] h = "getTokenBalances" -> {getTokenBalances(r)}
    [] h = "getAllLootboxStats" -> {getAllLootboxStats(r)}
    [] h = "getLootboxByCreatorAndCollection" ->
         AnyOne({l \in Lootbox : /\ l.creatorAddress = r.q["creator"]
                                 /\ l.collectionName = r.q["collection"]})
    [] h = "getTokenCollectionByLootbox" ->
         AnyOne({tc \in TokenCollection :
                   \E l \in Lootbox : /\ l.collectionResourceAddress = tc.creator
                                      /\ l.creatorAddress = r.q["creator"]
                                      /\ l.collectionName = r.q["collection"]})
    [] h = "getOffChainAccount" ->
         AnyOne({accounts[i] : i \in {j \in 1..Len(accounts) :
                                        accounts[j].walletAddress = r.q["address"]}})
    [] h = "getLootboxStats" ->
         AnyOne({stats[i] : i \in {j \in 1..Len(stats) :
                                     /\ ~ParseInt(r.q["lootboxId"]).nan
                                     /\ stats[j].lootboxId = ParseInt(r.q["lootboxId"]).val}})
    [] OTHER -> {<<>>}

\* One SQL statement of a read handler, and what the handler does with its
\* outcome up to its next statement or its return.
Query(s) ==
  /\ pc[s] \in {"q1", "q2", "q3"}
  /\ sqlIssued' = [sqlIssued EXCEPT ![s] = TRUE]
  /\ LET h == handler[s]
         r == req[s]
         issued == [loc[s] EXCEPT !.log = Append(@, pc[s])]
     IN \/ \E e \in QueryErrors(h, r) :
             /\ resp' = [resp EXCEPT ![s] = OnDbError(h, e)]
             /\ err' = [err EXCEPT ![s] = CatchOf(h, e)]
             /\ pc' = [pc EXCEPT ![s] = "finally"]
             /\ loc' = [loc EXCEPT ![s] = issued]
        \/ /\ pc[s] = "q1" /\ h \in LookupHandlers /\ PrimaryRows(h, r) = {}
           /\ resp' = [resp EXCEPT ![s] = WithCors(NotFound(h))]
           /\ pc' = [pc EXCEPT ![s] = "finally"]
           /\ loc' = [loc EXCEPT ![s] = issued]
           /\ err' = err
        \/ \E tcid \in IF pc[s] = "q1" /\ h \in LookupHandlers
                         THEN {LootboxOf(stats[i].lootboxId).tokenCollectionId :
                                 i \in PrimaryRows(h, r)}
                         ELSE {loc[s].tcid},
              rows \in IF pc[s] = "q1" THEN PrimaryResults(h, r) ELSE {loc[s].rows} :
             LET next == NextStatement(h, pc[s], r, tcid)
             IN /\ loc' = [loc EXCEPT ![s] = [issued EXCEPT !.tcid = tcid, !.rows = rows]]
                /\ err' = err
                /\ IF next = "return"
                     THEN /\ resp' = [resp EXCEPT ![s] = WithCors(Json(200, "", ""))]
                          /\ pc' = [pc EXCEPT ![s] = "finally"]
                     ELSE /\ resp' = resp
                          /\ pc' = [pc EXCEPT ![s] = next]
  /\ UNCHANGED <<accounts, stats, uniqueIndex, chain, req, conn, ended, handler, before, lastUpsert>>

(* ------------------------ upsertOffChainAccount ----------------------- *)

OrNull(x) == IF Truthy(x) THEN x ELSE Null

\* The data object handleRoute passes to upsertOffChainAccount, with
\* sanitizedPreferences for preferences.
UpsertData(r) ==
  [walletAddress |-> OptTrim(r.q["walletAddress"]),
   email |-> OrNull(OptTrimLower(r.q["email"])),
   username |-> OrNull(OptTrim(r.q["username"])),
   preferences |-> OrNull(r.q["preferences"])]

\* A DO UPDATE that keeps the stored value of a field the request omits
\* (COALESCE(EXCLUDED.field, field)).
DoUpdate_Coalesce(old, excluded) ==
  [f \in DOMAIN old |-> IF excluded[f] = Null THEN old[f] ELSE excluded[f]]

\* DO UPDATE SET email, username, preferences = EXCLUDED...: the row in
\* conflict takes the three fields of the proposed row and keeps the rest.
DoUpdate(old, excluded) ==
  [old EXCEPT !.email = excluded.email, !.username = excluded.username,
              !.preferences = excluded.preferences]

\* The upsert with the DO UPDATE reaching every row, not only the row in
\* conflict.
UpsertRow_EveryRow(rows, data) ==
  IF \E i \in 1..Len(rows) : rows[i].walletAddress = data.walletAddress
  THEN [i \in 1..Len(rows) |-> [data EXCEPT !.walletAddress = rows[i].walletAddress]]
  ELSE Append(rows, data)

\* INSERT ... ON CONFLICT ("walletAddress") DO UPDATE SET ...
UpsertRow(rows, data) ==
  IF \E i \in 1..Len(rows) : rows[i].walletAddress = data.walletAddress
  THEN [i \in 1..Len(rows) |->
          IF rows[i].walletAddress = data.walletAddress THEN DoUpdate(rows[i], data)
          ELSE rows[i]]
  ELSE Append(rows, data)

\* The catch block without the test for 'unique constraint'.
UpsertCatch_ColumnOnly(e) ==
  IF "email" \in e.words THEN Json(400, "Email already in use", "EMAIL_TAKEN")
  ELSE IF "username" \in e.words THEN Json(400, "Username already taken", "USERNAME_TAKEN")
  ELSE Json(500, "An error occurred while processing your request", "INTERNAL_ERROR")

\* catch (error) of upsertOffChainAccount
UpsertCatch(e) ==
  IF "unique constraint" \in e.words /\ "email" \in e.words
    THEN Json(400, "Email already in use", "EMAIL_TAKEN")
  ELSE IF "unique constraint" \in e.words /\ "username" \in e.words
    THEN Json(400, "Username already taken", "USERNAME_TAKEN")
  ELSE Json(500, "An error occurred while processing your request", "INTERNAL_ERROR")

\* upsertOffChainAccount: its one statement and its return
Upsert(s) ==
  /\ pc[s] = "upsert"
  /\ sqlIssued' = [sqlIssued EXCEPT ![s] = TRUE]
  /\ pc' = [pc EXCEPT ![s] = "finally"]
  /\ \/ \E e \in UpsertErrors :
          /\ resp' = [resp EXCEPT ![s] = WithCors(UpsertCatch(e))]
          /\ err' = [err EXCEPT ![s] = CaughtByHandler(e.message)]
          /\ accounts' = accounts
          /\ loc' = loc
     \/ /\ accounts' = UpsertRow(accounts, UpsertData(req[s]))
        /\ resp' = [resp EXCEPT ![s] = WithCors(Json(200, "", ""))]
        /\ err' = err
        /\ loc' = [loc EXCEPT ![s].conflict =
                     SelectSeq(accounts,
                               LAMBDA a : a.walletAddress = UpsertData(req[s]).walletAddress)]
  /\ UNCHANGED <<stats, uniqueIndex, chain, req, conn, ended, handler, before, lastUpsert>>


(* --------------------- createOffchainLootboxStats --------------------- *)

MaxSuffix == 2

\* Every attempt drawing the same digits.
Suffixes_Fixed == {<<"1">>}

\* Math.random().toString().substring(2, 11): the digits drawn
Suffixes == {<<c>> : c \in {d \in Digits : DigitVal(d) \in 1..MaxSuffix}}

\* `${baseUrl}-${randomSuffix}`
SuffixedUrl(baseUrl, randomSuffix) == baseUrl \o <<"-">> \o randomSuffix

\* catch (error) of createOffchainLootboxStats
CreateCatch == WithCors(Json(500, "Failed to create offchain data", ""))

\* A statement of createOffchainLootboxStats (or of generateUniqueUrl, which
\* it awaits inside its try block) fails.
CreateFails(s, e) ==
  /\ resp' = [resp EXCEPT ![s] = CreateCatch]
  /\ err' = [err EXCEPT ![s] = CaughtByHandler(e.message)]
  /\ pc' = [pc EXCEPT ![s] = "finally"]
  /\ UNCHANGED <<stats, loc>>

\* SELECT id, "creatorAddress" FROM "Lootbox" WHERE id = ... AND
\* "creatorAddress" = ... AND "collectionName" = ...
OwnsLootbox(b) ==
  \E l \in Lootbox :
    /\ l.id = b.lootboxId
    /\ l.creatorAddress = b.creatorAddress
    /\ l.collectionName = b.collectionName

\* lines 1153-1165: verify lootbox ownership
Ownership(s) ==
  /\ pc[s] = "ownership"
  /\ sqlIssued' = [sqlIssued EXCEPT ![s] = TRUE]
  /\ \/ \E e \in ReadErrors : CreateFails(s, e)
     \/ /\ IF OwnsLootbox(req[s].body)
             THEN /\ pc' = [pc EXCEPT ![s] = "existing"]
                  /\ resp' = resp
             ELSE /\ resp' = [resp EXCEPT ![s] =
                       WithCors(Json(400, "Invalid lootbox ID or ownership", ""))]
                  /\ pc' = [pc EXCEPT ![s] = "finally"]
        /\ UNCHANGED <<stats, loc, err>>
  /\ UNCHANGED <<accounts, uniqueIndex, chain, req, conn, ended, handler, before, lastUpsert>>

\* The existence check testing for a second row (existing[1]) instead of
\* existing[0].
HasStats_MoreThanOne(lootboxId) ==
  Cardinality({i \in 1..Len(stats) : stats[i].lootboxId = lootboxId}) > 1

\* SELECT id FROM "OFFChain_LootboxStats" WHERE "lootboxId" = ...
HasStats(lootboxId) == \E i \in 1..Len(stats) : stats[i].lootboxId = lootboxId

\* lines 1167-1179: check if the record already exists
Existing(s) ==
  /\ pc[s] = "existing"
  /\ sqlIssued' = [sqlIssued EXCEPT ![s] = TRUE]
  /\ \/ \E e \in ReadErrors : CreateFails(s, e)
     \/ /\ IF HasStats(req[s].body.lootboxId)
             THEN /\ resp' = [resp EXCEPT ![s] = WithCors(Json(409, "", ""))]
                  /\ pc' = [pc EXCEPT ![s] = "finally"]
             ELSE /\ pc' = [pc EXCEPT ![s] = "genBase"]
                  /\ resp' = resp
        /\ UNCHANGED <<stats, loc, err>>
  /\ UNCHANGED <<accounts, uniqueIndex, chain, req, conn, ended, handler, before, lastUpsert>>

\* generateUniqueUrl, lines 1121-1130: the check of baseUrl, and the draw of
\* the suffix when it is in use
GenBase(s) ==
  /\ pc[s] = "genBase"
  /\ sqlIssued' = [sqlIssued EXCEPT ![s] = TRUE]
  /\ LET baseUrl == req[s].body.url
     IN \/ \E e \in ReadErrors : CreateFails(s, e)
        \/ /\ ~UrlExists(baseUrl)
           /\ loc' = [loc EXCEPT ![s].uniqueUrl = baseUrl, ![s].baseAt = Len(stats)]
           /\ pc' = [pc EXCEPT ![s] = "insert"]
           /\ UNCHANGED <<resp, stats, err>>
        \/ /\ UrlExists(baseUrl)
           /\ \E randomSuffix \in Suffixes :
                loc' = [loc EXCEPT ![s].newUrl = SuffixedUrl(baseUrl, randomSuffix),
                                   ![s].baseAt = Len(stats)]
           /\ pc' = [pc EXCEPT ![s] = "genSuffix"]
           /\ UNCHANGED <<resp, stats, err>>
  /\ UNCHANGED <<accounts, uniqueIndex, chain, req, conn, ended, handler, before, lastUpsert>>

\* generateUniqueUrl returning newUrl whatever its check found.
AfterSuffixCheck_NoRetry(exists) == "insert"

\* The step generateUniqueUrl takes after the check of newUrl: recurse when
\* it is in use, else return it.
AfterSuffixCheck(exists) == IF exists THEN "genBase" ELSE "insert"

\* generateUniqueUrl, lines 1132-1138: the check of newUrl
GenSuffix(s) ==
  /\ pc[s] = "genSuffix"
  /\ sqlIssued' = [sqlIssued EXCEPT ![s] = TRUE]
  /\ \/ \E e \in ReadErrors : CreateFails(s, e)
     \/ LET next == AfterSuffixCheck(UrlExists(loc[s].newUrl))
        IN /\ pc' = [pc EXCEPT ![s] = next]
           /\ loc' = [loc EXCEPT ![s].candAt = Len(stats),
                                 ![s].uniqueUrl = IF next = "insert" THEN loc[s].newUrl ELSE @]
           /\ UNCHANGED <<resp, stats, err>>
  /\ UNCHANGED <<accounts, uniqueIndex, chain, req, conn, ended, handler, before, lastUpsert>>

\* The row the INSERT writes.
StatsRow(b, uniqueUrl) ==
  [lootboxId |-> b.lootboxId, url |-> uniqueUrl, rarityColorMap |-> b.rarityColors]

\* Whether a unique index on lootboxId or on url rejects the row.
Rejected(row) ==
  uniqueIndex /\ (HasStats(row.lootboxId) \/ UrlExists(row.url))

\* lines 1185-1205: create the record
Insert(s) ==
  /\ pc[s] = "insert"
  /\ sqlIssued' = [sqlIssued EXCEPT ![s] = TRUE]
  /\ LET row == StatsRow(req[s].body, loc[s].uniqueUrl)
     IN \/ \E e \in ReadErrors \cup {StatsUniqueError} :
             /\ e = StatsUniqueError => Rejected(row)
             /\ CreateFails(s, e)
        \/ /\ ~Rejected(row)
           /\ stats' = Append(stats, row)
           /\ resp' = [resp EXCEPT ![s] = WithCors(Json(200, "", ""))]
           /\ pc' = [pc EXCEPT ![s] = "finally"]
           /\ loc' = [loc EXCEPT ![s].offchainLootbox = Len(stats) + 1]
           /\ err' = err
  /\ UNCHANGED <<accounts, uniqueIndex, chain, req, conn, ended, handler, before, lastUpsert>>


(* ------------------------------ requests ------------------------------ *)

Request(method, path, key, q, body) ==
  [method |-> method, path |-> path, key |-> key, q |-> q, body |-> body]

GoodKey == <<"k", "1">>
BadKey == <<"k", "2">>
Keys == {Null, GoodKey, BadKey}

U == <<"u">>
U1 == <<"u", "-", "1">>
OtherUrl == <<"z">>
NotTrue == <<"1">>

Wallet1 == <<" ", "w", "1">>
EmailA == <<"A", "@", "x", " ">>
EmailB == <<"b", "@", "x">>
ShortName == <<"a", "b">>
GoodName == <<"a", "b", "c">>
BadName == <<"a", "!", "c">>
LongName == [i \in 1..(UsernameMax + 1) |-> "a"]
PaddedName == <<" ", "a", "b", "c", " ">>

AllPaths == RoutePaths \cup {P("nope"), PP("nope")}

\* Every path with every method and key, without parameters or body.
GateRequests ==
  {Request(m, p, k, Q(<<>>), NoBody) : m \in {"GET", "OPTIONS"}, p \in AllPaths, k \in Keys}

\* Values tried for a required parameter that is present.
Values(name) ==
  CASE name = "lootboxId" -> {<<>>, <<"1">>, <<"a", "b", "c">>, <<"2", "x">>}
    [] name = "url" -> {<<>>, U, OtherUrl}
    [] OTHER -> {<<>>, Alice}

\* The optional flags of a route with one required parameter.
FlagsOf(path) ==
  CASE path = PP("creator-lootbox-stats") -> {"includeLootboxes", "includeTokens"}
    [] path = PP("lootbox-stats-by-url") -> {"includeLootbox", "includeTokens"}
    [] OTHER -> {}

OneParamRequests ==
  UNION {{Request("GET", t[1], GoodKey, Q((t[2] :> v) @@ f), NoBody) :
            v \in Values(t[2]), f \in [FlagsOf(t[1]) -> {TrueStr, NotTrue}]} :
         t \in OneParamRoutes}

CreatorCollectionRequests ==
  UNION {{Request("GET", t[1], GoodKey,
                  Q(("creator" :> c) @@ ("collection" :> n) @@ f), NoBody) :
            c \in {Null, Alice, Bob}, n \in {<<>>, Genesis, Gold},
            f \in [IF t[1] = PP("lootbox-stats-by-collection")
                     THEN {"includeLootbox", "includeTokens"} ELSE {} -> {TrueStr, NotTrue}]} :
         t \in CreatorCollectionRoutes}

OptionalParamRequests ==
  {Request("GET", P("token-balances"), Null,
           Q(("address" :> a) @@ ("greaterThanZeroBalance" :> g)), NoBody) :
     a \in {Null, <<>>, Alice}, g \in {Null, TrueStr, NotTrue}}
  \cup
  {Request("GET", PP("all-lootbox-stats"), GoodKey, Q(f), NoBody) :
     f \in [{"mustHaveUrl", "isActive", "isWhitelisted", "includeTokenCollection",
             "includeTokens"} -> {TrueStr, NotTrue}]}

Wallet2 == <<"w", "2">>

\* Account-upsert calls: every combination of the four parameters.
UpsertCalls(wallets, emails, usernames, preferences) ==
  {Request("GET", UpsertPath, GoodKey,
           Q(("walletAddress" :> w) @@ ("email" :> e) @@ ("username" :> n)
             @@ ("preferences" :> p)), NoBody) :
     w \in wallets, e \in emails, n \in usernames, p \in preferences}

UpsertRequests ==
  UpsertCalls({<<" ">>, Wallet1}, {Null, EmailA},
              {Null, ShortName, GoodName, BadName, LongName, PaddedName},
              {Null, JsonObject, JsonNumber, JsonBroken})

BodyFields == {"lootboxId", "url", "rarityColors", "creatorAddress", "collectionName"}

\* JSON bodies of create requests sent while one request is served at a time.
CreateBodies ==
  {NoBody, NullBody}
  \cup {Body("object", BodyFields, i, u, "red", c, Genesis) :
          i \in {0, 1}, u \in {<<>>, U}, c \in {<<>>, Alice, Bob}}
  \cup {Body("object", BodyFields \ {f}, 1, U, "blue", Alice, Genesis) : f \in BodyFields}

CreateRequests ==
  {Request("POST", CreatePath, k, Q(<<>>), b) : k \in {GoodKey}, b \in CreateBodies}
  \cup {Request("POST", CreatePath, BadKey, Q(<<>>),
                Body("object", BodyFields, 1, U, "red", Alice, Genesis))}

Requests ==
  GateRequests \cup OneParamRequests \cup CreatorCollectionRequests
    \cup OptionalParamRequests \cup UpsertRequests \cup CreateRequests

(* ------------------- one request at a time: Spec ---------------------- *)

InitSlots(slots) ==
  /\ req = [s \in slots |-> NoRequest]
  /\ pc = [s \in slots |-> "idle"]
  /\ resp = [s \in slots |-> NoResponse]
  /\ conn = [s \in slots |-> "none"]
  /\ ended = [s \in slots |-> 0]
  /\ handler = [s \in slots |-> "none"]
  /\ sqlIssued = [s \in slots |-> FALSE]
  /\ loc = [s \in slots |-> NoLocals]
  /\ err = [s \in slots |-> NoError]
  /\ before = [s \in slots |-> <<>>]
  /\ lastUpsert = NoUpsert

\* The account an earlier upsert call of another wallet has left.
EarlierAccount ==
  [walletAddress |-> Wallet2, email |-> Null, username |-> Null, preferences |-> Null]

\* The store is empty, or holds the stats row of lootbox 2 created earlier;
\* there is no account, or the account of another wallet.
Init ==
  /\ InitSlots({1})
  /\ accounts \in {<<>>, <<EarlierAccount>>}
  /\ stats \in {<<>>, <<[lootboxId |-> 2, url |-> U, rarityColorMap |-> "red"]>>}
  /\ uniqueIndex = FALSE
  /\ chain = Chain(3)

Next ==
  \/ \E s \in Slots, r \in Requests : Arrive(s, r)
  \/ \E s \in Slots : fetch(s)
  \/ \E s \in Slots : Route(s)
  \/ \E s \in Slots : Query(s)
  \/ \E s \in Slots : Upsert(s)
  \/ \E s \in Slots : Ownership(s)
  \/ \E s \in Slots : Existing(s)
  \/ \E s \in Slots : GenBase(s)
  \/ \E s \in Slots : GenSuffix(s)
  \/ \E s \in Slots : Insert(s)
  \/ \E s \in Slots : Finally(s)
  \/ \E s \in Slots : Complete(s)

Spec == Init /\ [][Next]_vars


(* ---------------- concurrent create requests: SpecCreate -------------- *)

\* Create requests of the owners of lootboxes 1 and 2, and one of a stranger.
OwnerBodies ==
  {Body("object", BodyFields, 1, U, "red", Alice, Genesis),
   Body("object", BodyFields, 1, U, "blue", Alice, Genesis),
   Body("object", BodyFields, 2, U, "red", Bob, Genesis)}

StrangerBodies == {Body("object", BodyFields, 1, U, "blue", Bob, Genesis)}

ConcurrentCreateRequests ==
  {Request("POST", CreatePath, GoodKey, Q(<<>>), b) : b \in OwnerBodies \cup StrangerBodies}

\* The store that earlier create requests have left: the stats row of
\* lootbox 3, under a suffixed url.
EarlierStats ==
  {<<[lootboxId |-> 3, url |-> U1, rarityColorMap |-> "red"]>>}

Clients == 2

\* Each client sends one create request, at any time; the schema may or may
\* not have unique indexes on OFFChain_LootboxStats.
InitCreate ==
  /\ InitSlots(1..Clients)
  /\ accounts = <<>>
  /\ stats \in EarlierStats
  /\ uniqueIndex \in BOOLEAN
  /\ chain = Chain(3)

NextCreate ==
  \/ \E s \in Slots, r \in ConcurrentCreateRequests : Arrive(s, r)
  \/ \E s \in Slots : fetch(s)
  \/ \E s \in Slots : Route(s)
  \/ \E s \in Slots : Ownership(s)
  \/ \E s \in Slots : Existing(s)
  \/ \E s \in Slots : GenBase(s)
  \/ \E s \in Slots : GenSuffix(s)
  \/ \E s \in Slots : Insert(s)
  \/ \E s \in Slots : Finally(s)

SpecCreate == InitCreate /\ [][NextCreate]_vars


(* --------------- account-upsert calls in turn: SpecUpsert ------------- *)

UpsertTurnRequests ==
  UpsertCalls({Wallet1, Wallet2}, {Null, EmailA, EmailB}, {Null, GoodName},
              {Null, JsonObject})

InitUpsert ==
  /\ InitSlots({1})
  /\ accounts = <<>>
  /\ stats = <<>>
  /\ uniqueIndex = FALSE
  /\ chain = Chain(3)

NextUpsert ==
  \/ \E s \in Slots, r \in UpsertTurnRequests : Arrive(s, r)
  \/ \E s \in Slots : fetch(s)
  \/ \E s \in Slots : Route(s)
  \/ \E s \in Slots : Upsert(s)
  \/ \E s \in Slots : Finally(s)
  \/ \E s \in Slots : CompleteLogged(s)

SpecUpsert == InitUpsert /\ [][NextUpsert]_vars


(* ------------------- read requests in turn: SpecRead ------------------ *)

\* The OFFChain_Account table with n rows.
AccountTable(n) ==
  [i \in 1..n |-> [walletAddress |-> [j \in 1..i |-> "w"], email |-> Null,
                   username |-> Null, preferences |-> Null]]

\* Stats rows of lootboxes 1, 2 and 3; the row of lootbox 2 has no url (url is
\* a nullable column that create always fills).
ReadStats ==
  << [lootboxId |-> 1, url |-> U, rarityColorMap |-> "red"],
     [lootboxId |-> 2, url |-> Null, rarityColorMap |-> "red"],
     [lootboxId |-> 3, url |-> U1, rarityColorMap |-> "blue"] >>

\* Requests to the list endpoints and to the two endpoints with filters.
ReadRequests ==
  {Request("GET", t[1], GoodKey, Q(<<>>), NoBody) : t \in NoParamRoutes}
    \cup OptionalParamRequests

\* The tables are empty, hold a few rows, or hold more rows than any LIMIT.
InitRead ==
  /\ InitSlots({1})
  /\ \E n \in {0, 3, MaxRows} : chain = Chain(n) /\ accounts = AccountTable(n)
  /\ stats \in {<<>>, ReadStats}
  /\ uniqueIndex = FALSE

NextRead ==
  \/ \E s \in Slots, r \in ReadRequests : Arrive(s, r)
  \/ \E s \in Slots : fetch(s)
  \/ \E s \in Slots : Route(s)
  \/ \E s \in Slots : Query(s)
  \/ \E s \in Slots : Finally(s)
  \/ \E s \in Slots : Complete(s)

SpecRead == InitRead /\ [][NextRead]_vars


(* ------------- create requests for a slug in use: SpecSlug ------------ *)

SlugSlots == {1}

\* Stores in which the slug U is in use: by the stats row of lootbox 3 alone,
\* or also with the row of another lootbox that asked for U and was given a
\* suffixed url.
SlugStats ==
  { <<[lootboxId |-> 3, url |-> U, rarityColorMap |-> "red"]>>,
    <<[lootboxId |-> 3, url |-> U, rarityColorMap |-> "red"],
      [lootboxId |-> 2, url |-> U1, rarityColorMap |-> "red"]>> }

\* Create requests of the owners of lootboxes 1 and 2, for the slug in use and
\* for a free one.
SlugRequests ==
  {Request("POST", CreatePath, GoodKey, Q(<<>>), b) :
     b \in {Body("object", BodyFields, 1, u, "red", Alice, Genesis) : u \in {U, OtherUrl}}
           \cup {Body("object", BodyFields, 2, U, "blue", Bob, Genesis)}}

InitSlug ==
  /\ InitSlots(SlugSlots)
  /\ accounts = <<>>
  /\ stats \in SlugStats
  /\ uniqueIndex \in BOOLEAN
  /\ chain = Chain(3)

NextSlug ==
  \/ \E s \in Slots, r \in SlugRequests : Arrive(s, r)
  \/ \E s \in Slots : fetch(s)
  \/ \E s \in Slots : Route(s)
  \/ \E s \in Slots : Ownership(s)
  \/ \E s \in Slots : Existing(s)
  \/ \E s \in Slots : GenBase(s)
  \/ \E s \in Slots : GenSuffix(s)
  \/ \E s \in Slots : Insert(s)
  \/ \E s \in Slots : Finally(s)
  \/ \E s \in Slots : Complete(s)

\* generateUniqueUrl draws a suffix whose candidate is not in use.
DrawUnused(s) == GenBase(s) /\ pc'[s] = "genSuffix" /\ ~UrlExists(loc'[s].newUrl)

\* An awaited statement of generateUniqueUrl completes, and a suffix whose
\* candidate is unused, when there is one again and again, is drawn at last.
SpecSlug ==
  /\ InitSlug /\ [][NextSlug]_vars
  /\ \A s \in SlugSlots :
       WF_vars(GenBase(s)) /\ WF_vars(GenSuffix(s)) /\ SF_vars(DrawUnused(s))


(* ============================ properties ============================== *)

Done(s) == pc[s] = "done"

\* The request went past the preflight and the API-key check.
Dispatched(s) == conn[s] # "none"

Unauthorized == WithCors(Json(401, "Unauthorized - Invalid API key", ""))

KeyAccepted(r) == r.key \in ValidKeys

\* The pcs at which a handler is about to issue a SQL statement.
StatementPcs ==
  {"q1", "q2", "q3", "upsert", "ownership", "existing", "genBase", "genSuffix", "insert"}

(* C1 as stated: every request on a private path, whatever its method, is   *)
(* answered 401 with {error: 'Unauthorized - Invalid API key'} when its key *)
(* is absent or not in the key set, with no connection opened and no        *)
(* handler invoked, and proceeds to route dispatch when its key is in the   *)
(* set.                                                                     *)
C1_AsStated ==
  \A s \in Slots :
    Done(s) /\ IsPrivatePath(req[s].path) =>
      IF KeyAccepted(req[s])
      THEN Dispatched(s)
      ELSE resp[s] = Unauthorized /\ ~Dispatched(s) /\ handler[s] = "none" /\ ~sqlIssued[s]

(* C1, amended: the same for every request whose method is not OPTIONS; at  *)
(* no point of such a request with a bad key is there a connection, a       *)
(* handler or a SQL statement.                                              *)
C1_PrivateNeedsKey ==
  \A s \in Slots :
    pc[s] \notin {"idle", "fetch"} /\ IsPrivatePath(req[s].path) /\ req[s].method # "OPTIONS" =>
      IF KeyAccepted(req[s])
      THEN Dispatched(s)
      ELSE /\ Done(s)
           /\ resp[s] = Unauthorized
           /\ ~Dispatched(s) /\ ended[s] = 0
           /\ handler[s] = "none"
           /\ ~sqlIssued[s]

\* A GET of a private path that matches no route, with a key that is not in
\* the set, has been answered.
C1_Witness ==
  \E s \in Slots :
    /\ Done(s) /\ req[s].method = "GET" /\ req[s].path = PP("nope")
    /\ req[s].key = BadKey /\ resp[s].status = 401

(* C2: while a handler has a SQL statement to issue its connection is open   *)
(* and not yet ended; fetch reaches its finally block with the connection   *)
(* open; and once the request is over, whatever its outcome, the connection *)
(* it opened has been ended exactly once.                                   *)
C2_ReleasedOnce ==
  \A s \in Slots :
    /\ pc[s] \in StatementPcs \cup {"route", "finally"} => conn[s] = "open" /\ ended[s] = 0
    /\ sqlIssued[s] => Dispatched(s)
    /\ Done(s) /\ Dispatched(s) => conn[s] = "ended" /\ ended[s] = 1
    /\ conn[s] = "ended" => Done(s)

\* A request whose handler's statement failed and was caught by fetch is over.
C2_Witness ==
  \E s \in Slots :
    /\ Done(s) /\ err[s].caughtBy = "fetch" /\ sqlIssued[s]
    /\ conn[s] = "ended" /\ ended[s] = 1


(* C3: the OFFChain_LootboxStats table holds at most one row per lootboxId  *)
(* and no two rows with the same url, in every reachable state, under any   *)
(* interleaving of concurrent create requests.                              *)
C3_OneRowPerLootbox ==
  \A i, j \in 1..Len(stats) :
    i # j => stats[i].lootboxId # stats[j].lootboxId /\ stats[i].url # stats[j].url

(* C4: when an account-upsert call with a non-empty email follows one for   *)
(* the same wallet address with a different non-empty email, there is       *)
(* exactly one OFFChain_Account row for the wallet, its email is the        *)
(* lower-cased, trimmed email of the second call, and the table has as many *)
(* rows as after the first call.                                            *)
C4_LastWriteWins ==
  \A s \in Slots :
    /\ Done(s) /\ Dispatched(s) /\ UpsertCallWithEmail(s)
    /\ lastUpsert.wallet = OptTrim(req[s].q["walletAddress"])
    /\ lastUpsert.email # OptTrimLower(req[s].q["email"])
    => LET rows == {i \in 1..Len(accounts) :
                      accounts[i].walletAddress = OptTrim(req[s].q["walletAddress"])}
       IN /\ Cardinality(rows) = 1
          /\ \A i \in rows : accounts[i].email = OptTrimLower(req[s].q["email"])
          /\ Len(accounts) = lastUpsert.rows

\* A parameter that is missing or empty.
Missing(x) == x = Null \/ x = <<>>

RequiredBodyFields == {"lootboxId", "url", "creatorAddress", "collectionName"}

\* The required query parameters of a route.
RequiredOf(path) ==
  IF \E t \in OneParamRoutes : t[1] = path
    THEN {(CHOOSE t \in OneParamRoutes : t[1] = path)[2]}
  ELSE IF \E t \in CreatorCollectionRoutes : t[1] = path THEN {"creator", "collection"}
  ELSE IF path = UpsertPath THEN {"walletAddress"}
  ELSE {}

HasRequired(path) == RequiredOf(path) # {} \/ path = CreatePath

\* The handler of a route.
HandlerOf(path) ==
  IF path = UpsertPath THEN "upsertOffChainAccount"
  ELSE IF path = CreatePath THEN "createOffchainLootboxStats"
  ELSE LET table == {<<t[1], t[Len(t)]>> :
                       t \in NoParamRoutes \cup OneParamRoutes \cup CreatorCollectionRoutes
                             \cup OptionalParamRoutes}
       IN (CHOOSE t \in table : t[1] = path)[2]

\* A required parameter of the request is missing or empty.
SomeRequiredMissing(r) ==
  IF r.path = CreatePath
  THEN \/ RequiredBodyFields \ r.body.has # {}
       \/ <<>> \in {r.body.url, r.body.creatorAddress, r.body.collectionName}
  ELSE \E n \in RequiredOf(r.path) : Missing(r.q[n])

\* The answer to a request that the router refuses: a 400 with an {error}
\* body, no handler invoked, no SQL statement issued.
Refused(s) ==
  /\ resp[s].status = 400 /\ resp[s].body = "json" /\ resp[s].error # ""
  /\ handler[s] = "none" /\ ~sqlIssued[s]

\* The values of an account-upsert request are well formed: a wallet address
\* that is not blank, a username that is absent or 3 to 30 characters of
\* [a-zA-Z0-9_-], preferences that are absent or the JSON text of an object.
WellFormed(r) ==
  r.path = UpsertPath =>
    LET username == OptTrim(r.q["username"])
    IN /\ ~Missing(OptTrim(r.q["walletAddress"]))
       /\ \/ Missing(username)
          \/ /\ Len(username) >= 3 /\ Len(username) <= 30
             /\ \A i \in 1..Len(username) : username[i] \in UsernameChars
       /\ Missing(r.q["preferences"]) \/ JsonParse(r.q["preferences"]) \in {"object", "array"}

(* C5: on a route with required parameters, a request with a required       *)
(* parameter missing or empty is answered 400 with an {error} body, without *)
(* the handler and without SQL; a request with every required parameter     *)
(* present (and its values well formed) invokes the route's handler.        *)
C5_RequiredParameters ==
  \A s \in Slots :
    Done(s) /\ Dispatched(s) /\ HasRequired(req[s].path) =>
      IF SomeRequiredMissing(req[s]) THEN Refused(s)
      ELSE WellFormed(req[s]) => handler[s] = HandlerOf(req[s].path)

\* The lootbox of the create request of slot s had a stats row when the
\* request arrived.
HadRow(s) ==
  \E i \in 1..Len(before[s]) : before[s][i].lootboxId = req[s].body.lootboxId

\* The rows that were there when the request of slot s arrived are as they were.
RowsKept(s) ==
  Len(stats) >= Len(before[s]) /\ SubSeq(stats, 1, Len(before[s])) = before[s]

(* C6 as stated: a create request for a lootboxId that already has a row    *)
(* returns 409, inserts nothing and leaves the existing row unchanged.      *)
C6_AsStated ==
  \A s \in Slots :
    Done(s) /\ Dispatched(s) /\ req[s].path = CreatePath /\ HadRow(s) =>
      resp[s].status = 409 /\ loc[s].offchainLootbox = 0 /\ RowsKept(s)

(* C6, amended: a create request with all required fields, for a lootboxId  *)
(* that already has a row, never reaches slug generation or the insert,     *)
(* inserts nothing and leaves the existing rows unchanged, whatever url and *)
(* rarityColors it carries; it returns 409 when its creatorAddress and      *)
(* collectionName are those of the lootbox and neither of its two SELECT    *)
(* statements fails, 400 when they are not, and the handler's 500 when a    *)
(* SELECT fails.                                                            *)
C6_Conflict ==
  \A s \in Slots :
    pc[s] # "idle" /\ Dispatched(s) /\ req[s].path = CreatePath /\ HadRow(s)
      /\ ~MissingRequiredFields(req[s].body) =>
      /\ pc[s] \notin {"genBase", "genSuffix", "insert"}
      /\ loc[s].offchainLootbox = 0
      /\ RowsKept(s)
      /\ Done(s) =>
           resp[s].status = IF err[s].caughtBy # "none" THEN 500
                            ELSE IF OwnsLootbox(req[s].body) THEN 409 ELSE 400

\* A second create request for a lootbox, carrying other rarityColors than
\* the row has, was answered 409.
C6_Witness ==
  \E s \in Slots :
    /\ Done(s) /\ resp[s].status = 409
    /\ \E i \in 1..Len(before[s]) :
         /\ before[s][i].lootboxId = req[s].body.lootboxId
         /\ before[s][i].rarityColorMap # req[s].body.rarityColors

\* The urls in use when there were n rows (rows are only ever appended).
UrlsAt(n) == Urls(SubSeq(stats, 1, n))

(* C7: when generateUniqueUrl has returned, its result is baseUrl exactly   *)
(* if no row had url = baseUrl when it checked; otherwise the result is     *)
(* baseUrl-<suffix>, differs from baseUrl, and no row had that url when the *)
(* check made just before returning ran.                                    *)
C7_UniqueUrl ==
  \A s \in Slots :
    pc[s] = "insert" =>
      LET baseUrl == req[s].body.url
          result == loc[s].uniqueUrl
      IN IF baseUrl \notin UrlsAt(loc[s].baseAt)
         THEN result = baseUrl
         ELSE /\ result # baseUrl
              /\ \E x \in Suffixes : result = baseUrl \o <<"-">> \o x
              /\ result \notin UrlsAt(loc[s].candAt)

\* generateUniqueUrl returned a suffixed url after a draw that was in use.
C7_Witness ==
  \E s \in Slots :
    /\ pc[s] = "insert" /\ loc[s].uniqueUrl = SuffixedUrl(U, <<"2">>)
    /\ U1 \in UrlsAt(loc[s].candAt)

\* The handlers that have a try/catch around their statements.
CatchingHandlers ==
  {"getTokenBalances", "getCreatorLootboxStats", "getLootboxStatsByUrl",
   "checkLootboxStatsUrlExists", "upsertOffChainAccount", "createOffchainLootboxStats",
   "getLootboxStatsByCollection", "getAllLootboxStats"}

(* C8 as stated: no handler lets a database error of its statements reach   *)
(* the catch of fetch.                                                      *)
C8_AsStated ==
  \A s \in Slots : handler[s] # "none" => err[s].caughtBy # "fetch"

(* C8, amended: getTokenBalances, getCreatorLootboxStats,                   *)
(* getLootboxStatsByUrl, checkLootboxStatsUrlExists, upsertOffChainAccount, *)
(* createOffchainLootboxStats, getLootboxStatsByCollection and              *)
(* getAllLootboxStats catch a database error of their own statements and    *)
(* return a JSON error envelope (status 400 or 500) themselves; every other *)
(* handler lets it reach the catch of fetch, which returns the 500 envelope *)
(* with the error's message.                                                *)
C8_WhoCatches ==
  \A s \in Slots :
    handler[s] # "none" /\ err[s].caughtBy # "none" =>
      /\ resp[s].body = "json" /\ resp[s].status \in {400, 500} /\ resp[s].error # ""
      /\ IF handler[s] \in CatchingHandlers
           THEN err[s].caughtBy = "handler"
           ELSE err[s].caughtBy = "fetch" /\ resp[s].status = 500
                /\ resp[s].error = err[s].message

\* getTokenBalances caught an error of its statement and answered 500.
C8_Witness ==
  \E s \in Slots :
    /\ Done(s) /\ handler[s] = "getTokenBalances" /\ err[s].caughtBy = "handler"
    /\ resp[s].status = 500

(* C9: an error that reaches the catch of fetch, thrown during dispatch or  *)
(* by a handler that does not catch it, ends the request with a 500 JSON    *)
(* response whose error is the error's message and which has the CORS       *)
(* headers; and a request that opened a connection never leaves the try     *)
(* block without a JSON response.                                           *)
C9_LastResort ==
  \A s \in Slots :
    /\ err[s].caughtBy = "fetch" =>
         /\ pc[s] \in {"finally", "done"}
         /\ resp[s] = [status |-> 500, body |-> "json", error |-> err[s].message,
                       code |-> "", cors |-> TRUE]
    /\ pc[s] \in {"finally", "done"} /\ Dispatched(s) =>
         resp[s].body = "json" /\ resp[s].status >= 200

\* A create request without a body: request.json() threw during dispatch.
C9_Witness ==
  \E s \in Slots :
    /\ Done(s) /\ req[s].path = CreatePath /\ req[s].body.kind = "none"
    /\ err[s].caughtBy = "fetch" /\ handler[s] = "none" /\ resp[s].status = 500

\* A parameter that is present and is not a number.
Malformed(x) == ~Missing(x) /\ \E i \in 1..Len(x) : x[i] \notin Digits

LootboxIdPaths ==
  {P("tokens-by-lootbox"), P("rarities-by-lootbox"), PP("lootbox-stats"),
   PP("lootbox-likes"), PP("lootbox-views")}

(* C10: a request whose lootboxId is present and is not a number, on        *)
(* tokens-by-lootbox, rarities-by-lootbox, private/lootbox-stats,           *)
(* private/lootbox-likes or private/lootbox-views, is answered 400 with a   *)
(* message, and no SQL statement is issued for it.                          *)
C10_MalformedRejected ==
  \A s \in Slots :
    Dispatched(s) /\ req[s].path \in LootboxIdPaths /\ Malformed(req[s].q["lootboxId"]) =>
      /\ ~sqlIssued[s]
      /\ Done(s) => resp[s].status = 400 /\ resp[s].error # ""


\* The rows of the other wallets are where they were and as they were, and at
\* most one row, of wallet w, is new.
OnlyWallet(w, old, new) ==
  /\ Len(new) \in {Len(old), Len(old) + 1}
  /\ \A i \in 1..Len(old) :
       /\ new[i].walletAddress = old[i].walletAddress
       /\ old[i].walletAddress # w => new[i] = old[i]
  /\ Len(new) = Len(old) + 1 =>
       /\ new[Len(new)].walletAddress = w
       /\ \A i \in 1..Len(old) : old[i].walletAddress # w

(* C11: a step of a request changes OFFChain_Account only when it is the    *)
(* statement of upsertOffChainAccount called by the account-upsert route,   *)
(* and then inserts or updates only the row of the request's wallet         *)
(* address; it changes OFFChain_LootboxStats only when it is the INSERT of  *)
(* a create request, and then appends one row and leaves every existing row *)
(* (its lootboxId, url and color map) as it was.                            *)
C11_Frame ==
  [][/\ accounts' # accounts =>
          \E s \in Slots :
            /\ req[s].path = UpsertPath /\ pc[s] = "upsert" /\ pc'[s] # "upsert"
            /\ OnlyWallet(OptTrim(req[s].q["walletAddress"]), accounts, accounts')
     /\ stats' # stats =>
          \E s \in Slots :
            /\ req[s].path = CreatePath /\ pc[s] = "insert" /\ pc'[s] # "insert"
            /\ Len(stats') = Len(stats) + 1
            /\ SubSeq(stats', 1, Len(stats)) = stats
            /\ stats'[Len(stats')].lootboxId = req[s].body.lootboxId]_vars

\* An upsert call has written the row of its wallet, behind the row of
\* another wallet.
C11_Witness ==
  \E s \in Slots :
    /\ Done(s) /\ handler[s] = "upsertOffChainAccount" /\ resp[s].status = 200
    /\ Len(accounts) = 2 /\ accounts[1] = EarlierAccount
    /\ accounts[2].walletAddress = Trim(Wallet1) /\ accounts[2].username = GoodName
    /\ req[s].q["username"] = GoodName /\ req[s].q["preferences"] = JsonObject
    /\ accounts[2].preferences = JsonObject


(* C12: every response the service produces carries the CORS headers: the   *)
(* preflight response, the 401, the 400 and 404 of the router, the          *)
(* responses and error envelopes of the handlers, and the 500 of fetch; and *)
(* a request that has ended has a response.                                 *)
C12_CorsOnEveryResponse ==
  \A s \in Slots :
    /\ resp[s] # NoResponse => resp[s].cors
    /\ pc[s] \in {"finally", "done"} => resp[s] # NoResponse /\ resp[s].status >= 200

\* The error envelope upsertOffChainAccount built in its catch block has been
\* returned, with the headers.
C12_Witness ==
  \E s \in Slots :
    /\ Done(s) /\ handler[s] = "upsertOffChainAccount" /\ err[s].caughtBy = "handler"
    /\ resp[s].status = 400 /\ resp[s].code = "USERNAME_TAKEN" /\ resp[s].cors


\* new Response(null, { headers: corsHeaders })
Preflight == [status |-> 200, body |-> "none", error |-> "", code |-> "", cors |-> TRUE]

(* C13: a request with method OPTIONS, for any path and with or without an  *)
(* API key, is answered with an empty 200 response carrying the CORS        *)
(* headers, and nothing else happens for it: no 401, no route dispatch, no  *)
(* handler, no database connection, no SQL statement.                       *)
C13_Preflight ==
  \A s \in Slots :
    pc[s] \notin {"idle", "fetch"} /\ req[s].method = "OPTIONS" =>
      /\ Done(s) /\ resp[s] = Preflight
      /\ conn[s] = "none" /\ ended[s] = 0 /\ handler[s] = "none" /\ ~sqlIssued[s]
      /\ err[s] = NoError

\* A preflight for a private path, sent with a key that is not valid, has
\* been answered.
C13_Witness ==
  \E s \in Slots :
    /\ Done(s) /\ req[s].method = "OPTIONS" /\ IsPrivatePath(req[s].path)
    /\ req[s].key = BadKey /\ resp[s].status = 200


\* The rows are in non-increasing order of the sort column.
NonIncreasing(rows) == \A i \in 1..(Len(rows) - 1) : rows[i].at >= rows[i + 1].at

\* The handlers of the list endpoints.
ListEndpointHandlers ==
  {"getAccounts", "getLootboxes", "getLootboxAnalytics", "getLootboxPurchases",
   "getLootboxRewards", "getTokens", "getTokenCollections", "getTokenTransactions",
   "getTokenBalances", "getTokenData", "getTokenDeposits", "getTokenWithdraws",
   "getTokenBurns", "getTokenMints", "getTokenClaims", "getRarities", "getEventTracking",
   "getVRFCallbacks", "getOffChainAccounts"}

\* The fixed limit of a list endpoint.
FixedLimit(h) == IF h \in {"getTokenTransactions", "getEventTracking"} THEN 50 ELSE 20

\* The request of slot s was answered with the rows of handler h.
Answered(s) == Done(s) /\ resp[s].status = 200 /\ err[s] = NoError

(* C14 as stated: every list endpoint, token-balances included, returns at  *)
(* most its fixed limit of rows (50 for token-transactions and              *)
(* event-tracking, 20 for the others), in non-increasing order of its sort  *)
(* column.                                                                  *)
C14_AsStated ==
  \A s \in Slots :
    Answered(s) /\ handler[s] \in ListEndpointHandlers =>
      /\ Len(loc[s].rows) <= FixedLimit(handler[s])
      /\ NonIncreasing(loc[s].rows)

(* C14, amended: every list endpoint other than token-balances returns at   *)
(* most its fixed limit of rows, in non-increasing order of its sort        *)
(* column; token-balances returns its rows in non-increasing order of       *)
(* lastUpdated, at most 20 of them when the address parameter is absent or  *)
(* empty, and all the rows of the address, without a limit, when it is      *)
(* given.                                                                   *)
C14_ListEndpoints ==
  \A s \in Slots :
    Answered(s) /\ handler[s] \in ListEndpointHandlers =>
      /\ NonIncreasing(loc[s].rows)
      /\ IF handler[s] = "getTokenBalances" /\ ~Missing(req[s].q["address"])
         THEN \A i \in 1..Len(chain.balances) :
                LET b == chain.balances[i]
                IN b.accountAddress = req[s].q["address"]
                   /\ (Flag(req[s].q["greaterThanZeroBalance"]) => b.balance > 0)
                   => \E j \in 1..Len(loc[s].rows) : loc[s].rows[j] = b
         ELSE Len(loc[s].rows) <= FixedLimit(handler[s])

\* token-transactions has returned 50 of more than 50 rows.
C14_Witness ==
  \E s \in Slots :
    /\ Answered(s) /\ handler[s] = "getTokenTransactions"
    /\ Len(chain.list) > 50 /\ Len(loc[s].rows) = 50


\* A username of 3 to 30 characters of [a-zA-Z0-9_-].
ValidUsername(x) ==
  /\ Len(x) >= 3 /\ Len(x) <= 30
  /\ \A i \in 1..Len(x) : x[i] \in UsernameChars

\* The trimmed username of the request is non-empty and not valid.
InvalidUsername(r) ==
  LET username == OptTrim(r.q["username"])
  IN ~Missing(username) /\ ~ValidUsername(username)

(* C15: an account-upsert request whose trimmed username is non-empty and   *)
(* is shorter than 3 characters, longer than 30 characters, or has a        *)
(* character outside [a-zA-Z0-9_-] is answered 400 without the handler and  *)
(* without a SQL statement, so it writes nothing; every username in         *)
(* OFFChain_Account is null or 3 to 30 characters of [a-zA-Z0-9_-].         *)
C15_UsernameValid ==
  /\ \A s \in Slots :
       /\ req[s].path = UpsertPath /\ Dispatched(s) /\ pc[s] \in {"finally", "done"}
       /\ InvalidUsername(req[s])
       => Refused(s)
  /\ \A s \in Slots :
       req[s].path = UpsertPath /\ InvalidUsername(req[s]) => pc[s] # "upsert"
  /\ \A i \in 1..Len(accounts) :
       accounts[i].username = Null \/ ValidUsername(accounts[i].username)

\* A request with a wallet address, no email and a username with a character
\* outside the class has been refused for its username.
C15_Witness ==
  \E s \in Slots :
    /\ Done(s) /\ req[s].path = UpsertPath /\ Refused(s)
    /\ ~Missing(OptTrim(req[s].q["walletAddress"])) /\ Missing(req[s].q["email"])
    /\ req[s].q["username"] = BadName
    /\ resp[s].error = "Username can only contain letters, numbers, underscores, and hyphens"
    /\ \E i \in 1..Len(accounts) : accounts[i].username = Null


\* The status and code the claim gives to a database error of the upsert
\* statement.
UpsertErrorAnswer(e) ==
  IF "unique constraint" \in e.words /\ "email" \in e.words THEN <<400, "EMAIL_TAKEN">>
  ELSE IF "unique constraint" \in e.words /\ "username" \in e.words
    THEN <<400, "USERNAME_TAKEN">>
  ELSE <<500, "INTERNAL_ERROR">>

(* C16: when the upsert statement fails with a database error, the response *)
(* is 400 EMAIL_TAKEN for a unique-constraint violation naming the email    *)
(* column, 400 USERNAME_TAKEN for one naming the username column, and 500   *)
(* INTERNAL_ERROR for every other error; the handler's own catch takes the  *)
(* error, the outer wrapper does not, and no OFFChain_Account row changes.  *)
C16_UpsertErrors ==
  [][\A s \in Slots :
       pc[s] = "upsert" /\ err'[s] # err[s] =>
         \E e \in UpsertErrors :
           /\ err'[s] = CaughtByHandler(e.message)
           /\ <<resp'[s].status, resp'[s].code>> = UpsertErrorAnswer(e)
           /\ resp'[s].body = "json"
           /\ accounts' = accounts
           /\ pc'[s] = "finally"]_vars

\* An error that names the email column without being a unique-constraint
\* violation has been answered 500, with a row in the table.
C16_Witness ==
  \E s \in Slots :
    /\ Done(s) /\ handler[s] = "upsertOffChainAccount" /\ Len(accounts) > 0
    /\ err[s] = CaughtByHandler(EmailCheckError.message)
    /\ resp[s].status = 500 /\ resp[s].code = "INTERNAL_ERROR"


\* The flag of the request is set: it has the literal value 'true'.
IsSet(r, flag) == r.q[flag] = <<"t", "r", "u", "e">>

\* The stats rows (by position) that satisfy the predicates of the flags set.
StatsSatisfying(r) ==
  {i \in 1..Len(stats) :
     /\ IsSet(r, "mustHaveUrl") => stats[i].url # Null
     /\ IsSet(r, "isActive") => LootboxOf(stats[i].lootboxId).isActive
     /\ IsSet(r, "isWhitelisted") => LootboxOf(stats[i].lootboxId).isWhitelisted}

\* The balance rows that satisfy the predicates of the flags set; an address
\* that is absent or empty sets no predicate.
BalancesSatisfying(r) ==
  {i \in 1..Len(chain.balances) :
     /\ ~Missing(r.q["address"]) => chain.balances[i].accountAddress = r.q["address"]
     /\ IsSet(r, "greaterThanZeroBalance") => chain.balances[i].balance > 0}

\* The rows (by id) that slot s was answered with.
Returned(s) == {loc[s].rows[j].id : j \in 1..Len(loc[s].rows)}

(* C17 as stated: private/all-lootbox-stats and token-balances return       *)
(* exactly the rows that satisfy the conjunction of the predicates of the   *)
(* flags that are set; with no flag set no row is filtered out.             *)
C17_AsStated ==
  \A s \in Slots :
    /\ Answered(s) /\ handler[s] = "getAllLootboxStats" => Returned(s) = StatsSatisfying(req[s])
    /\ Answered(s) /\ handler[s] = "getTokenBalances" => Returned(s) = BalancesSatisfying(req[s])

(* C17, amended: private/all-lootbox-stats returns exactly the rows that    *)
(* satisfy the conjunction of the predicates of the flags that are set, and *)
(* so does token-balances when a non-empty address is given; without one,   *)
(* token-balances returns only the 20 rows latest in lastUpdated of those   *)
(* that satisfy the conjunction (all of them when there are at most 20).    *)
(* A flag other than the literal 'true', and an absent or empty address,    *)
(* contributes no predicate.                                                *)
C17_Filters ==
  \A s \in Slots :
    /\ Answered(s) /\ handler[s] = "getAllLootboxStats" => Returned(s) = StatsSatisfying(req[s])
    /\ Answered(s) /\ handler[s] = "getTokenBalances" =>
         LET all == BalancesSatisfying(req[s])
         IN IF ~Missing(req[s].q["address"]) THEN Returned(s) = all
            ELSE /\ Returned(s) \subseteq all
                 /\ Cardinality(Returned(s)) = IF Cardinality(all) < 20 THEN Cardinality(all) ELSE 20
                 /\ \A i \in all \ Returned(s), j \in Returned(s) :
                      chain.balances[i].at <= chain.balances[j].at

\* all-lootbox-stats with mustHaveUrl and isActive set and isWhitelisted not
\* 'true' has returned one row of three.
C17_Witness ==
  \E s \in Slots :
    /\ Answered(s) /\ handler[s] = "getAllLootboxStats" /\ Len(stats) = 3
    /\ IsSet(req[s], "mustHaveUrl") /\ IsSet(req[s], "isActive")
    /\ req[s].q["isWhitelisted"] = NotTrue
    /\ Returned(s) = {1}


\* The handlers of the plain lookup-by-key routes.
PlainLookups ==
  {"getLootboxByCreatorAndCollection", "getTokenCollectionByLootbox", "getOffChainAccount",
   "getLootboxStats"}

\* The parameters of the request match no row of the table that the plain
\* lookup h reads.
NoMatch(h, r) ==
  CASE h = "getLootboxByCreatorAndCollection" ->
         ~\E l \in Lootbox :
            l.creatorAddress = r.q["creator"] /\ l.collectionName = r.q["collection"]
    [] h = "getTokenCollectionByLootbox" ->
         ~\E l \in Lootbox, tc \in TokenCollection :
            /\ l.creatorAddress = r.q["creator"] /\ l.collectionName = r.q["collection"]
            /\ tc.creator = l.collectionResourceAddress
    [] h = "getOffChainAccount" ->
         ~\E i \in 1..Len(accounts) : accounts[i].walletAddress = r.q["address"]
    [] h = "getLootboxStats" ->
         ~\E i \in 1..Len(stats) :
            /\ ~ParseInt(r.q["lootboxId"]).nan
            /\ stats[i].lootboxId = ParseInt(r.q["lootboxId"]).val
    [] OTHER -> FALSE

(* C18: GET /api/lootbox with creator and collection parameters that match  *)
(* no Lootbox row is answered 200 with no lootbox in the body, never 404    *)
(* (a database error apart, which is answered 500); the same holds for      *)
(* token-collection-by-lootbox-creator, private/account and                 *)
(* private/lootbox-stats.                                                   *)
C18_NoRowIs200 ==
  \A s \in Slots :
    Done(s) /\ handler[s] \in PlainLookups /\ NoMatch(handler[s], req[s]) =>
      /\ resp[s].status # 404
      /\ err[s] = NoError =>
           /\ resp[s].status = 200 /\ resp[s].body = "json" /\ resp[s].error = ""
           /\ loc[s].rows = <<>>

\* GET /api/lootbox for a creator and a collection that exist, but not
\* together, has been answered 200 with no row.
C18_Witness ==
  \E s \in Slots :
    /\ Done(s) /\ handler[s] = "getLootboxByCreatorAndCollection"
    /\ req[s].q["creator"] = Bob /\ req[s].q["collection"] = Gold
    /\ resp[s].status = 200 /\ loc[s].rows = <<>>


(* C19: createOffchainLootboxStats runs its steps in a fixed order: the     *)
(* ownership check first, the existing-stats check only after it has        *)
(* passed, slug generation only after the existing-stats check has found no *)
(* row, the insert only after slug generation; a failed ownership check     *)
(* ends the handler with 400 'Invalid lootbox ID or ownership', whether or  *)
(* not the lootbox has stats, and no row is inserted for a request that     *)
(* has not passed both checks.                                              *)
C19_StepOrder ==
  [][\A s \in Slots :
       LET b == req[s].body
       IN /\ pc[s] = "route" /\ handler'[s] = "createOffchainLootboxStats" =>
               pc'[s] = "ownership"
          /\ pc'[s] # pc[s] =>
               /\ pc'[s] = "ownership" => pc[s] = "route"
               /\ pc'[s] = "existing" => pc[s] = "ownership" /\ OwnsLootbox(b)
               /\ pc'[s] = "genBase" =>
                    \/ pc[s] = "existing" /\ ~HasStats(b.lootboxId)
                    \/ pc[s] = "genSuffix"
               /\ pc'[s] = "genSuffix" => pc[s] = "genBase"
               /\ pc'[s] = "insert" => pc[s] \in {"genBase", "genSuffix"}
          /\ pc[s] = "ownership" /\ ~OwnsLootbox(b) /\ pc'[s] # pc[s] =>
               /\ pc'[s] = "finally" /\ stats' = stats
               /\ err'[s] = NoError =>
                    /\ resp'[s].status = 400
                    /\ resp'[s].error = "Invalid lootbox ID or ownership"
          /\ pc[s] = "insert" /\ stats' # stats => OwnsLootbox(b)]_vars

\* A request with the wrong creator for a lootbox that has stats has been
\* answered 400 by the ownership check.
C19_Witness ==
  \E s \in Slots :
    /\ Done(s) /\ handler[s] = "createOffchainLootboxStats"
    /\ ~OwnsLootbox(req[s].body) /\ HasStats(req[s].body.lootboxId)
    /\ resp[s].status = 400 /\ resp[s].error = "Invalid lootbox ID or ownership"


\* The statements that a composed fetch issues when its primary query returns
\* a row and no statement fails: the primary query, the lootbox query when
\* includeLootbox is set, the token-collection query when includeTokens is
\* set and the stats row has a tokenCollectionId.
Expected(s) ==
  <<"q1">>
    \o (IF req[s].q["includeLootbox"] = <<"t", "r", "u", "e">> THEN <<"q2">> ELSE <<>>)
    \o (IF req[s].q["includeTokens"] = <<"t", "r", "u", "e">> /\ loc[s].tcid # 0
          THEN <<"q3">> ELSE <<>>)

IsPrefix(a, b) == Len(a) <= Len(b) /\ SubSeq(b, 1, Len(a)) = a

(* C20: for private/lootbox-stats-by-url and                                *)
(* private/lootbox-stats-by-collection the statements of a request are      *)
(* issued one after another, the primary query first; when it returns no    *)
(* row the response is 404 and no other statement is issued; otherwise the  *)
(* lootbox query is issued iff includeLootbox is set and the                *)
(* token-collection query iff includeTokens is set and the stats row has a  *)
(* tokenCollectionId (a statement that fails ends the sequence).            *)
C20_Sequential ==
  \A s \in Slots :
    handler[s] \in {"getLootboxStatsByUrl", "getLootboxStatsByCollection"} =>
      /\ IsPrefix(loc[s].log, Expected(s))
      /\ pc[s] \in {"q2", "q3"} => loc[s].log # <<>> /\ loc[s].log[1] = "q1"
      /\ Done(s) /\ err[s] = NoError =>
           IF PrimaryRows(handler[s], req[s]) = {}
           THEN resp[s].status = 404 /\ loc[s].log = <<"q1">>
           ELSE resp[s].status = 200 /\ loc[s].log = Expected(s)

\* A by-collection request with both flags, for a lootbox with a token
\* collection, has issued its three statements.
C20_Witness ==
  \E s \in Slots :
    /\ Done(s) /\ handler[s] = "getLootboxStatsByCollection"
    /\ resp[s].status = 200 /\ loc[s].log = <<"q1", "q2", "q3">>


\* The value of a request parameter as stored: null when the parameter is
\* omitted or empty.
Given(x) == IF Missing(x) THEN Null ELSE x

(* C21: an accepted account-upsert for a wallet that already has a row sets *)
(* the row's email, username and preferences to the values of the request,  *)
(* null for a value the request omits, whatever the row held; the row       *)
(* keeps its walletAddress and its place (id, createdAt), and the table     *)
(* keeps its rows.                                                          *)
C21_Overwrite ==
  [][\A s \in Slots :
       LET w == OptTrim(req[s].q["walletAddress"])
       IN /\ pc[s] = "upsert" /\ pc'[s] # "upsert" /\ err'[s] = err[s]
          /\ \E i \in 1..Len(accounts) : accounts[i].walletAddress = w
          => /\ Len(accounts') = Len(accounts)
             /\ \A i \in 1..Len(accounts) :
                  IF accounts[i].walletAddress = w
                  THEN accounts'[i] =
                         [walletAddress |-> w,
                          email |-> Given(OptTrimLower(req[s].q["email"])),
                          username |-> Given(OptTrim(req[s].q["username"])),
                          preferences |-> Given(req[s].q["preferences"])]
                  ELSE accounts'[i] = accounts[i]]_vars

\* A request without username and preferences has been accepted for a wallet
\* that had both, and the row of the wallet, still second of two, has neither.
C21_Witness ==
  \E s \in Slots :
    /\ Done(s) /\ handler[s] = "upsertOffChainAccount" /\ resp[s].status = 200
    /\ Missing(req[s].q["username"]) /\ Missing(req[s].q["preferences"])
    /\ Len(loc[s].conflict) = 1
    /\ loc[s].conflict[1].username # Null /\ loc[s].conflict[1].preferences # Null
    /\ Len(accounts) = 2
    /\ accounts[2].walletAddress = OptTrim(req[s].q["walletAddress"])
    /\ accounts[2].username = Null /\ accounts[2].preferences = Null
    /\ accounts[1].username # Null


(* C22: when the base slug is in use, generateUniqueUrl draws a suffix and  *)
(* checks the candidate; it retries, any number of times, whenever the      *)
(* candidate is in use, and returns the candidate as soon as one is found   *)
(* unused, never one that its check found in use; if an unused suffix is    *)
(* eventually drawn, it eventually returns (or a statement fails).          *)
C22_RetriesUntilUnused ==
  /\ [][\A s \in SlugSlots :
          /\ pc[s] = "genBase" /\ pc'[s] # "genBase" /\ err'[s] = err[s] =>
               IF req[s].body.url \in Urls(stats)
               THEN /\ pc'[s] = "genSuffix"
                    /\ \E x \in {<<d>> : d \in Digits} :
                         loc'[s].newUrl = req[s].body.url \o <<"-">> \o x
               ELSE pc'[s] = "insert" /\ loc'[s].uniqueUrl = req[s].body.url
          /\ pc[s] = "genSuffix" /\ pc'[s] # "genSuffix" /\ err'[s] = err[s] =>
               IF loc[s].newUrl \in Urls(stats)
               THEN pc'[s] = "genBase"
               ELSE pc'[s] = "insert" /\ loc'[s].uniqueUrl = loc[s].newUrl]_vars
  /\ \A s \in SlugSlots :
       pc[s] \in {"genBase", "genSuffix"} ~> pc[s] \notin {"genBase", "genSuffix"}

\* generateUniqueUrl is back at its first check after a candidate that was in
\* use.
C22_Witness ==
  \E s \in Slots :
    /\ pc[s] = "genBase" /\ req[s].body.url \in Urls(stats)
    /\ loc[s].newUrl # <<>> /\ loc[s].newUrl \in Urls(stats)

====
